---- MODULE Spec2Model ----
(***************************************************************************)
(* Model of the query pipeline of lagrz/query:                             *)
(*   src/src/query/queryprocessor.py  QueryProcessor                       *)
(*   src/src/query/database.py        DatabaseAdapter and the backends     *)
(* Strings are sequences of one-character strings, so that str.split and   *)
(* str.strip are computed, not assumed.  The template engine, the backends *)
(* and the caller are the environment: their outcomes are drawn from small *)
(* sets.                                                                   *)
(***************************************************************************)
EXTENDS Integers, Sequences, FiniteSets, TLC

\* ------------------------------------------------------------------ bounds

\* Largest number of rows in the results handed to one assembly call.
MaxRows == 2

\* Largest number of process() calls the caller makes.
MaxRuns == 1

\* Largest number of close() calls the caller makes on a processor between
\* two runs (the context manager's __exit__ is one of them).
MaxCloseCalls == 1

\* Longest rendered query text whose splitting into statements is checked.
MaxTextLen == 5

\* Largest number of connections the MySQL pool hands out in all.
MaxConns == 3

\* Largest number of query() calls on one MySQL connection object.
MaxQueries == 2

\* Largest number of close() calls on one MySQL connection object.
MaxBackendCloses == 2

\* Longest CSV response body that is parsed.
MaxBodyLen == 7

\* ------------------------------------------------------------------ values

\* A Python value of the Context: a scalar, a dict (a row is a dict) or a
\* list of rows.  Every value has the same fields so that any two compare.
EmptyMap == [k \in {} |-> 0]

Scalar(n) == [kind |-> "scalar", v |-> n, kids |-> EmptyMap, items |-> <<>>]

MapVal(f) == [kind |-> "map", v |-> 0, kids |-> f, items |-> <<>>]

ListVal(s) == [kind |-> "list", v |-> 0, kids |-> EmptyMap, items |-> s]

\* d[k] = v on a dict.
SetKey(f, k, v) == [x \in (DOMAIN f) \cup {k} |-> IF x = k THEN v ELSE f[x]]

\* A row as a backend returns it: a dict with one column "id".
Row(n) == MapVal(SetKey(EmptyMap, <<"i", "d">>, Scalar(n)))

\* ----------------------------------------------------------------- strings

\* The index of the first occurrence of character c in s, 0 when absent.
FirstIndex(s, c) ==
  IF \E j \in 1..Len(s) : s[j] = c
  THEN CHOOSE j \in 1..Len(s) : s[j] = c /\ \A h \in 1..(j - 1) : s[h] # c
  ELSE 0

\* str.split(sep) for a one-character separator: every fragment, the empty
\* ones included; "".split(sep) is [""].
RECURSIVE Split(_, _)
Split(s, sep) ==
  LET j == FirstIndex(s, sep)
  IN  IF j = 0 THEN <<s>>
      ELSE <<SubSeq(s, 1, j - 1)>> \o Split(SubSeq(s, j + 1, Len(s)), sep)

\* str.strip(): leading and trailing blanks removed.
RECURSIVE Strip(_)
Strip(s) ==
  IF s = <<>> THEN s
  ELSE IF s[1] = " " THEN Strip(Tail(s))
  ELSE IF s[Len(s)] = " " THEN Strip(SubSeq(s, 1, Len(s) - 1))
  ELSE s

\* [q.strip() for q in rendered_query.split(";") if q.strip()]
RECURSIVE StripAll(_)
StripAll(frags) ==
  IF frags = <<>> THEN <<>>
  ELSE IF Strip(Head(frags)) = <<>> THEN StripAll(Tail(frags))
  ELSE <<Strip(Head(frags))>> \o StripAll(Tail(frags))

\* The statement list without the "if q.strip()" filter: every fragment is
\* stripped and kept, the empty ones too.
StatementsKeepEmpty(rendered) ==
  LET frags == Split(rendered, ";")
  IN  [k \in 1..Len(frags) |-> Strip(frags[k])]

Statements(rendered) == StripAll(Split(rendered, ";"))

\* ----------------------------------------------------------------- assembly

\* Collapse with the singleton test widened to "any row": a multi-row
\* result loses all rows but the first.
CollapseFirst(results) == IF Len(results) >= 1 THEN results[1] ELSE ListVal(results)

\* results[0] if len(results) == 1 else results
Collapse(results) == IF Len(results) = 1 THEN results[1] ELSE ListVal(results)

\* The descent without its loop over the intermediate parts: the value is
\* assigned under the last part directly in the first mapping.
SetInFlat(current, rest, value) ==
  IF current.kind # "map" THEN [ok |-> FALSE, val |-> current]
  ELSE [ok |-> TRUE, val |-> MapVal(SetKey(current.kids, rest[Len(rest)], value))]

\* Lines 100-107 of _update_data_structure: from the value `current`, walk the
\* intermediate parts (creating {} where a part is missing) and assign the
\* value at the last part.  rest is parts[1:], never empty.  A value that is
\* not a dict raises TypeError (ok = FALSE); what was created before stays.
RECURSIVE SetIn(_, _, _)
SetIn(current, rest, value) ==
  IF current.kind # "map" THEN [ok |-> FALSE, val |-> current]
  ELSE IF Len(rest) = 1
    THEN [ok |-> TRUE, val |-> MapVal(SetKey(current.kids, rest[1], value))]
  ELSE LET part == rest[1]
           child == IF part \in DOMAIN current.kids
                    THEN current.kids[part] ELSE MapVal(EmptyMap)
           r == SetIn(child, Tail(rest), value)
       IN  [ok |-> r.ok, val |-> MapVal(SetKey(current.kids, part, r.val))]

\* _update_data_structure with line 97's test dropped: self.data[db] = {} is
\* executed on every call, so what was stored under db is lost.
UpdateDataStructureFresh(data, table, results) ==
  LET parts == Split(table, ".")
      value == Collapse(results)
  IN  IF Len(parts) = 1
      THEN [ok |-> TRUE, data |-> SetKey(data, parts[1], value)]
      ELSE LET db == parts[1]
               d1 == SetKey(data, db, MapVal(EmptyMap))
               r  == SetIn(d1[db], Tail(parts), value)
           IN  [ok |-> r.ok, data |-> SetKey(d1, db, r.val)]

\* _update_data_structure(table, results) on the dict `data`.  Returns the
\* dict as the call leaves it and whether the call returned (ok) or raised.
UpdateDataStructure(data, table, results) ==
  LET parts == Split(table, ".")
      value == Collapse(results)
  IN  IF Len(parts) = 1
      THEN [ok |-> TRUE, data |-> SetKey(data, parts[1], value)]
      ELSE LET db == parts[1]
               d1 == IF db \in DOMAIN data THEN data
                     ELSE SetKey(data, db, MapVal(EmptyMap))
               r  == SetIn(d1[db], Tail(parts), value)
           IN  [ok |-> r.ok, data |-> SetKey(d1, db, r.val)]

\* ------------------------------------------------------------ configuration

\* Adapter names a configuration may use; "ghost" is never declared.
Names == {"db", "web", "aux", "ghost"}

\* AdapterSettings: the kind string as written and the fields that are set
\* (present and not empty).
Settings(kind, present) == [adapter |-> kind, present |-> present]

SqliteOk == Settings("sqlite3", {"database"})

HttpOk == Settings("HTTP", {"base_url", "base_path"})

MysqlOk == Settings("mysql", {"user", "password", "host", "port", "database"})

MysqlNoPassword == Settings("mysql2", {"user", "host", "port", "database"})

UnknownKind == Settings("oracle", {"database"})

\* Table paths ("t", "d.t", "d.a.t", "k.t", "d.t.u") and the name of a
\* query template.
TableT == <<"t">>

TableDT == <<"d", ".", "t">>

TableDAT == <<"d", ".", "a", ".", "t">>

TableKT == <<"k", ".", "t">>

TableDTU == <<"d", ".", "t", ".", "u">>

Query(table, adapter) == [table |-> table, adapter |-> adapter, query |-> "tpl"]

AllSections == {"adapter_settings", "queries", "output"}

Config(sections, settings, queries) ==
  [sections |-> sections, adapter_settings |-> settings, queries |-> queries]

\* The configuration documents the runs are checked on.
Configs ==
  { Config({"adapter_settings", "queries"}, [n \in {"db"} |-> SqliteOk],
           <<Query(TableT, "db")>>),
    Config(AllSections, [n \in {"db"} |-> SqliteOk],
           <<Query(TableDT, "db"), Query(TableDAT, "db"), Query(TableDTU, "db")>>),
    Config(AllSections, [n \in {"web", "db"} |-> IF n = "web" THEN HttpOk ELSE SqliteOk],
           <<Query(TableT, "web"), Query(TableDT, "db")>>),
    Config(AllSections, [n \in {"web", "aux"} |-> IF n = "web" THEN HttpOk ELSE MysqlOk],
           <<Query(TableKT, "aux"), Query(TableT, "web")>>),
    Config(AllSections, [n \in {"db"} |-> SqliteOk],
           <<Query(TableT, "db"), Query(TableT, "ghost")>>),
    Config(AllSections, [n \in {"db", "aux"} |-> IF n = "db" THEN SqliteOk ELSE MysqlNoPassword],
           <<Query(TableT, "db"), Query(TableDT, "aux")>>),
    Config(AllSections, [n \in {"db"} |-> UnknownKind],
           <<Query(TableT, "db")>>),
    Config(AllSections, [n \in {"db"} |-> SqliteOk], <<>>) }

\* What the template engine may render a query template to:
\* "", "x" and "x; ; y;".
Texts == { <<>>, <<"x">>, <<"x", ";", " ", ";", " ", "y", ";">> }

\* How many rows a statement may return; the results of a step with two
\* statements then hold no row, one row or two.
RowCounts == {0, 1}

\* The initial values a caller may hold: {} and {"d": "v"}.
InitialValues == { EmptyMap, SetKey(EmptyMap, <<"d">>, Scalar(0)) }

\* ------------------------------------------------------------------ errors

Error(type, detail) == [type |-> type, detail |-> detail]

NoError == Error("none", <<>>)

\* _load_config: the three required sections.
LoadConfig(cfg) ==
  LET missing_keys == AllSections \ cfg.sections
  IN  [ok |-> missing_keys = {}, missing |-> missing_keys]

\* ---------------------------------------------------------------- backends

\* str.lower() on the kind strings in use.
Lower(kind) ==
  CASE kind = "HTTP" -> "http"
    [] kind = "MySQL" -> "mysql"
    [] OTHER -> kind

\* connection_classes.get(adapter)
ConnectionClass(kind) ==
  CASE Lower(kind) = "sqlite3" -> "Sqlite"
    [] Lower(kind) \in {"mysql", "mysql2"} -> "Mysql"
    [] Lower(kind) = "http" -> "Http"
    [] OTHER -> "none"

\* required_attrs of each connection class, in the order the code lists them.
RequiredAttrs(cls) ==
  CASE cls = "Sqlite" -> <<"database">>
    [] cls = "Mysql" -> <<"user", "password", "host", "port", "database">>
    [] cls = "Http" -> <<"base_url", "base_path">>
    [] OTHER -> <<>>

\* missing_attrs cut to its first entry: of several missing fields only the
\* first is reported.
MissingAttrsFirst(cls, settings) ==
  LET Unset(a) == a \notin settings.present
      all == SelectSeq(RequiredAttrs(cls), Unset)
  IN  IF all = <<>> THEN <<>> ELSE <<all[1]>>

\* missing_attrs: the required fields that are not set, in order.
MissingAttrs(cls, settings) ==
  LET Unset(a) == a \notin settings.present
  IN  SelectSeq(RequiredAttrs(cls), Unset)

\* DatabaseAdapter._get_connection up to the constructor's validation: the
\* cached connection, or the class to construct, or the ValueError.
GetConnection(ad, settings) ==
  IF ad.conn # "none"
    THEN [ok |-> TRUE, err |-> NoError, conn |-> ad.conn, construct |-> FALSE]
  ELSE LET cls == ConnectionClass(settings.adapter)
       IN  IF cls = "none"
             THEN [ok |-> FALSE, err |-> Error("ValueError: unsupported adapter", <<settings.adapter>>),
                   conn |-> "none", construct |-> FALSE]
           ELSE IF MissingAttrs(cls, settings) # <<>>
             THEN [ok |-> FALSE, err |-> Error("ValueError: missing settings", MissingAttrs(cls, settings)),
                   conn |-> "none", construct |-> FALSE]
           ELSE [ok |-> TRUE, err |-> NoError, conn |-> cls, construct |-> TRUE]

\* ------------------------------------------------------- adapter dispatcher

\* A cached DatabaseAdapter: its name, its connection class ("none" until
\* the first statement), whether the connection was closed, and for the
\* run's bookkeeping its serial number and whether this run created it.
Adapter(name, id) ==
  [name |-> name, conn |-> "none", closed |-> FALSE, id |-> id, fresh |-> TRUE]

\* The position of `name` in the cache (a dict in insertion order), 0 if absent.
CacheIndex(cache, name) ==
  IF \E j \in 1..Len(cache) : cache[j].name = name
  THEN CHOOSE j \in 1..Len(cache) : cache[j].name = name
  ELSE 0

\* _get_adapter without the "not in self.adapters" test: every call
\* instantiates an adapter and stores it under the name.
GetAdapterNoCache(cache, cfg, name, nextId) ==
  IF name \notin DOMAIN cfg.adapter_settings
    THEN [ok |-> FALSE, err |-> Error("ValueError: adapter settings not found", <<name>>),
          cache |-> cache, at |-> 0, created |-> FALSE]
  ELSE IF CacheIndex(cache, name) # 0
    THEN [ok |-> TRUE, err |-> NoError,
          cache |-> [cache EXCEPT ![CacheIndex(cache, name)] = Adapter(name, nextId)],
          at |-> CacheIndex(cache, name), created |-> TRUE]
  ELSE [ok |-> TRUE, err |-> NoError, cache |-> Append(cache, Adapter(name, nextId)),
        at |-> Len(cache) + 1, created |-> TRUE]

\* _get_adapter(adapter_name): the cache after the call, the handle returned,
\* whether an adapter was instantiated, or the ValueError.  nextId numbers a
\* new instance.
GetAdapter(cache, cfg, name, nextId) ==
  IF CacheIndex(cache, name) # 0
    THEN [ok |-> TRUE, err |-> NoError, cache |-> cache,
          at |-> CacheIndex(cache, name), created |-> FALSE]
  ELSE IF name \notin DOMAIN cfg.adapter_settings
    THEN [ok |-> FALSE, err |-> Error("ValueError: adapter settings not found", <<name>>),
          cache |-> cache, at |-> 0, created |-> FALSE]
  ELSE [ok |-> TRUE, err |-> NoError, cache |-> Append(cache, Adapter(name, nextId)),
        at |-> Len(cache) + 1, created |-> TRUE]

\* -------------------------------------------------------------------- state

VARIABLES
  config,          \* the configuration document on disk
  callerData,      \* the caller's initial-values dict
  constructed,     \* a QueryProcessor exists
  dataRef,         \* self.data is the caller's dict ("caller") or its own ("own")
  ownData,         \* the processor's own dict, when self.data is not the caller's
  initData,        \* the initial values as supplied at construction
  adapters,        \* self.adapters, in insertion order
  pc,              \* where process()/close() stands: idle, render, exec,
                   \* assemble, output, closing
  i,               \* index of the query step in progress
  stmts,           \* the step's statements
  sidx,            \* index of the statement to execute next
  results,         \* rows the step collected so far
  err,             \* the exception the try block of process() raised
  cidx,            \* index in self.adapters of the adapter close() is at
  closeFrom,       \* who called close(): "process" (finally) or "caller"
  nCloseCalls,     \* close() calls by the caller since the last run
  nRuns,           \* process() calls so far
  lastResult,      \* how the last process() ended: none, document, raised
  lastErr,         \* the exception the last process() propagated
  runStart,        \* history: self.data when the run began (before the
                   \* first run: as constructed)
  sent,            \* history: statements sent to a backend in this run
  renderLog,       \* history: the steps rendered and the Context each saw
  asmLog,          \* history: the _update_data_structure calls of this run
  outputRendered,  \* history: the output template was rendered in this run
  failedStep,      \* history: the step whose body raised, 0 if none
  sentAtFail,      \* history: Len(sent) when that step raised
  made,            \* history: DatabaseAdapter instances created per name
  built,           \* history: connections constructed per name
  handles,         \* history: the handle each _get_adapter call returned
  closeCnt,        \* history: close() calls on this run's adapter of each name
  closeStart,      \* history: the names cached when close() began
  closedNow,       \* history: adapter.close() calls per name in this close()
  closeRet,        \* history: how the last close() ended: none, ok, raised
  connClosed       \* history: close() calls on the connection of this run's
                   \* adapter of each name

procVars == <<constructed, dataRef, ownData, initData, adapters>>

stepVars == <<i, stmts, sidx, results>>

closeVars == <<cidx, closeFrom, closeStart, closedNow, closeRet, connClosed>>

histVars == <<runStart, sent, renderLog, asmLog, outputRendered, failedStep, sentAtFail,
              made, built, handles, closeCnt>>

pipeVars == <<config, callerData, procVars, pc, stepVars, err, closeVars,
              nCloseCalls, nRuns, lastResult, lastErr, histVars>>

\* The state of one MysqlDatabaseConnection and of the calls made on it.
VARIABLES
  mySettings,         \* the AdapterSettings handed to the constructor
  myState,            \* new (not constructed), ready, or failed (__init__ raised)
  initErr,            \* the exception __init__ raised
  pool,               \* self.pool: unset, None or pool
  activeConnections,  \* self._active_connections
  issued,             \* connections pool.get_connection() has returned so far
  connCloses,         \* close() calls on each connection
  qpc,                \* where query() stands: idle, with, cursor, cursorclose, release
  qconn,              \* the connection the query() in progress borrowed, 0 if none
  qraised,            \* an exception is on its way out of query()
  nQueries,           \* query() calls so far
  nBackendCloses,     \* close() calls so far
  abandoned,          \* history: connections a caller borrowed and never released
  lastQuery,          \* history: the last query() call: outcome, connection,
                      \* active set before and after
  trackedAtClose      \* history: connections that were active when a close() began

mysqlVars == <<mySettings, myState, initErr, pool, activeConnections, issued,
               connCloses, qpc, qconn, qraised, nQueries, nBackendCloses,
               abandoned, lastQuery, trackedAtClose>>

\* The state of one HttpDatabaseConnection.query() call.
VARIABLES
  queryData,       \* what json.loads(query) gives: a JSON value, or it raises
  basePayloadCsv,  \* base_payload has csv = 1
  hpc,             \* where query() stands: idle, request, response, done
  requestsSent,    \* HTTP requests issued through the session
  response,        \* the response received: its JSON content and its text
  httpResult       \* how query() ended: outcome (none, rows, raised), error, rows

httpVars == <<queryData, basePayloadCsv, hpc, requestsSent, response, httpResult>>

\* One call of HttpDatabaseConnection._parse_csv_response.
VARIABLES
  responseText,    \* the response body handed to the parser
  parsed           \* the call's result: done, ok (returned) and the rows

csvVars == <<responseText, parsed>>

unitVars == <<mysqlVars, httpVars, csvVars>>

vars == <<pipeVars, unitVars>>

Zero == [n \in Names |-> 0]

\* No query() call yet.
NoQuery == [outcome |-> "none", conn |-> 0, before |-> {}, after |-> {}]

\* No MysqlDatabaseConnection has been constructed.
MysqlAtRest ==
  /\ myState = "new"
  /\ initErr = NoError
  /\ pool = "unset"
  /\ activeConnections = {}
  /\ issued = 0
  /\ connCloses = [c \in 1..MaxConns |-> 0]
  /\ qpc = "idle"
  /\ qconn = 0
  /\ qraised = FALSE
  /\ nQueries = 0
  /\ nBackendCloses = 0
  /\ abandoned = {}
  /\ lastQuery = NoQuery
  /\ trackedAtClose = {}

\* A JSON value as query() looks at it: its type and, for an object, what
\* it holds under "endpoint" and under "payload".
QueryData(kind, endpoint, payload) ==
  [kind |-> kind, endpoint |-> endpoint, payload |-> payload]

NoResponse == [json |-> "none", text |-> <<>>]

NoResult == [outcome |-> "none", err |-> NoError, rows |-> <<>>]

\* No HttpDatabaseConnection.query() call has been made.
HttpAtRest ==
  /\ hpc = "idle"
  /\ requestsSent = 0
  /\ response = NoResponse
  /\ httpResult = NoResult

NotParsed == [done |-> FALSE, ok |-> FALSE, rows |-> <<>>]

\* The backends on their own are not in use while the pipeline runs.
UnitsAtRest ==
  /\ mySettings = MysqlOk
  /\ MysqlAtRest
  /\ queryData = QueryData("null", "missing", "missing")
  /\ basePayloadCsv = FALSE
  /\ HttpAtRest
  /\ responseText = <<>>
  /\ parsed = NotParsed

\* self.data
Data == IF dataRef = "caller" THEN callerData ELSE ownData

CacheNames(cache) == {cache[j].name : j \in 1..Len(cache)}

\* The query step in progress.
Step == config.queries[i]

Init ==
  /\ config \in Configs
  /\ callerData \in InitialValues
  /\ constructed = FALSE
  /\ dataRef = "own"
  /\ ownData = EmptyMap
  /\ initData = EmptyMap
  /\ adapters = <<>>
  /\ pc = "idle"
  /\ i = 0
  /\ stmts = <<>>
  /\ sidx = 0
  /\ results = <<>>
  /\ err = NoError
  /\ cidx = 0
  /\ closeFrom = "none"
  /\ nCloseCalls = 0
  /\ nRuns = 0
  /\ lastResult = "none"
  /\ lastErr = NoError
  /\ runStart = EmptyMap
  /\ sent = <<>>
  /\ renderLog = <<>>
  /\ asmLog = <<>>
  /\ outputRendered = FALSE
  /\ failedStep = 0
  /\ sentAtFail = 0
  /\ made = Zero
  /\ built = Zero
  /\ handles = <<>>
  /\ closeCnt = Zero
  /\ closeStart = {}
  /\ closedNow = Zero
  /\ closeRet = "none"
  /\ connClosed = Zero
  /\ UnitsAtRest

\* A new run or a new processor starts with empty bookkeeping.
ResetRun ==
  /\ stmts' = <<>>
  /\ sidx' = 0
  /\ results' = <<>>
  /\ err' = NoError
  /\ cidx' = 0
  /\ closeFrom' = "none"
  /\ nCloseCalls' = 0
  /\ lastResult' = "none"
  /\ lastErr' = NoError
  /\ sent' = <<>>
  /\ renderLog' = <<>>
  /\ asmLog' = <<>>
  /\ outputRendered' = FALSE
  /\ failedStep' = 0
  /\ sentAtFail' = 0
  /\ made' = Zero
  /\ built' = Zero
  /\ handles' = <<>>
  /\ closeCnt' = Zero
  /\ closeStart' = {}
  /\ closedNow' = Zero
  /\ closeRet' = "none"
  /\ connClosed' = Zero

\* ------------------------------------------------------------- constructor

\* self.data = initial_data or {}: the caller's own dict unless it is None or
\* empty.  arg is "None" or "dict".
InitialDataRef(arg, callerDict) ==
  IF arg = "dict" /\ callerDict # EmptyMap THEN "caller" ELSE "own"

\* QueryProcessor(config_path, template_env, initial_data).  A constructor
\* that raises leaves no processor.
Construct(arg) ==
  /\ pc = "idle"
  /\ constructed' = LoadConfig(config).ok
  /\ dataRef' = InitialDataRef(arg, callerData)
  /\ ownData' = EmptyMap
  /\ initData' = IF InitialDataRef(arg, callerData) = "caller" THEN callerData ELSE EmptyMap
  /\ adapters' = <<>>
  /\ i' = 0
  /\ runStart' = IF InitialDataRef(arg, callerData) = "caller" THEN callerData ELSE EmptyMap
  /\ ResetRun
  /\ UNCHANGED <<config, callerData, pc, nRuns>>
  /\ UNCHANGED unitVars

\* ------------------------------------------------------------------ process

\* process() with the exception of a step swallowed: the loop goes on.
NextPhaseSwallow(ok, i0, n) == IF i0 < n THEN "render" ELSE "output"

\* process() with the loop left after its first step.
NextPhaseOnce(ok, i0, n) == IF ~ok THEN "closing" ELSE "output"

\* process(): where control goes when the body of step i of n returned (ok)
\* or raised: the next step, the output template, or except/finally.
NextPhase(ok, i0, n) ==
  IF ~ok THEN "closing" ELSE IF i0 < n THEN "render" ELSE "output"

\* close() begins on the cache as it stands.
BeginClose(from, cache) ==
  /\ cidx' = 1
  /\ closeFrom' = from
  /\ closeStart' = CacheNames(cache)
  /\ closedNow' = Zero
  /\ closeRet' = "none"
  /\ UNCHANGED connClosed

\* Step i's body ended: it returned (ok) or raised e, with nsent statements
\* sent so far and `cache` the adapters cached.
EndStep(ok, e, nsent, cache) ==
  LET ph == NextPhase(ok, i, Len(config.queries))
  IN  /\ pc' = ph
      /\ i' = IF ph = "closing" THEN i ELSE i + 1
      /\ err' = IF ok THEN err ELSE e
      /\ failedStep' = IF ok THEN failedStep ELSE i
      /\ sentAtFail' = IF ok THEN sentAtFail ELSE nsent
      /\ IF ph = "closing" THEN BeginClose("process", cache) ELSE UNCHANGED closeVars

\* process() is called.
StartProcess ==
  /\ pc = "idle"
  /\ constructed
  /\ nRuns < MaxRuns
  /\ nRuns' = nRuns + 1
  /\ pc' = IF Len(config.queries) = 0 THEN "output" ELSE "render"
  /\ i' = 1
  /\ adapters' = [j \in 1..Len(adapters) |-> [adapters[j] EXCEPT !.fresh = FALSE, !.id = 0]]
  /\ runStart' = Data
  /\ ResetRun
  /\ UNCHANGED <<config, callerData, constructed, dataRef, ownData, initData>>
  /\ UNCHANGED unitVars

\* The render of a query against the values the processor began with, not
\* against self.data as it stands.
RenderContextStale == runStart

\* template.render(self.data): the Context a query template is rendered against.
RenderContext == Data

\* _process_query, lines 64-70: template.render(self.data) raises.
RenderQueryFails ==
  /\ pc = "render"
  /\ renderLog' = Append(renderLog, [step |-> i, ctx |-> RenderContext, text |-> <<>>])
  /\ EndStep(FALSE, Error("TemplateError", <<>>), Len(sent), adapters)
  /\ UNCHANGED <<config, callerData, procVars, stmts, sidx, results, nCloseCalls, nRuns,
                 lastResult, lastErr, runStart, sent, asmLog, outputRendered,
                 made, built, handles, closeCnt>>
  /\ UNCHANGED unitVars

\* _process_query, lines 64-77: the template renders to `text`, the adapter
\* is looked up and the text is split into statements.
RenderQuery(text) ==
  /\ pc = "render"
  /\ renderLog' = Append(renderLog, [step |-> i, ctx |-> RenderContext, text |-> text])
  /\ LET ga == GetAdapter(adapters, config, Step.adapter, made[Step.adapter] + 1)
     IN  IF ~ga.ok
         THEN /\ EndStep(FALSE, ga.err, Len(sent), adapters)
              /\ UNCHANGED <<adapters, stmts, sidx, results, made, handles>>
         ELSE /\ adapters' = ga.cache
              /\ made' = IF ga.created
                         THEN [made EXCEPT ![Step.adapter] = @ + 1] ELSE made
              /\ handles' = Append(handles, [name |-> Step.adapter, id |-> ga.cache[ga.at].id])
              /\ stmts' = Statements(text)
              /\ sidx' = 1
              /\ results' = <<>>
              /\ pc' = IF Statements(text) = <<>> THEN "assemble" ELSE "exec"
              /\ UNCHANGED <<i, err, failedStep, sentAtFail, closeVars>>
  /\ UNCHANGED <<config, callerData, constructed, dataRef, ownData, initData,
                 nCloseCalls, nRuns, lastResult, lastErr, runStart, sent, asmLog,
                 outputRendered, built, closeCnt>>
  /\ UNCHANGED unitVars

\* The cached adapter of the step in progress, and its settings.
StepAt == CacheIndex(adapters, Step.adapter)

StepConn == GetConnection(adapters[StepAt], config.adapter_settings[Step.adapter])

\* The cache once the step's adapter holds its connection.
Connected(cache, at, cls) == [cache EXCEPT ![at].conn = cls]

\* A statement is handed to connection.query(), which returns `rows` (none
\* when it raises).
Send(log, step, k, text, name, rows) ==
  Append(log, [step |-> step, k |-> k, text |-> text, adapter |-> name, rows |-> rows])

\* The rows a backend returns to statement k of step `step`: n rows, told
\* apart by the statement and by their place.
Rows(step, k, n) == [j \in 1..n |-> Row(100 * step + 10 * k + j)]

\* execute_query: _get_connection raises ValueError (unknown kind or missing
\* settings); nothing is sent.
ExecConfigError ==
  /\ pc = "exec"
  /\ ~StepConn.ok
  /\ EndStep(FALSE, StepConn.err, Len(sent), adapters)
  /\ UNCHANGED <<config, callerData, procVars, stmts, sidx, results, nCloseCalls, nRuns,
                 lastResult, lastErr, runStart, sent, renderLog, asmLog,
                 outputRendered, made, built, handles, closeCnt>>
  /\ UNCHANGED unitVars

\* execute_query: the settings are valid but the MySQL connection pool cannot
\* be set up; the constructor raises and no connection is kept.
ExecPoolError ==
  /\ pc = "exec"
  /\ StepConn.ok /\ StepConn.construct /\ StepConn.conn = "Mysql"
  /\ EndStep(FALSE, Error("BackendError", <<"pool">>), Len(sent), adapters)
  /\ UNCHANGED <<config, callerData, procVars, stmts, sidx, results, nCloseCalls, nRuns,
                 lastResult, lastErr, runStart, sent, renderLog, asmLog,
                 outputRendered, made, built, handles, closeCnt>>
  /\ UNCHANGED unitVars

\* execute_query: the statement is sent and connection.query() raises.
ExecQueryError ==
  /\ pc = "exec"
  /\ StepConn.ok
  /\ adapters' = Connected(adapters, StepAt, StepConn.conn)
  /\ built' = IF StepConn.construct THEN [built EXCEPT ![Step.adapter] = @ + 1] ELSE built
  /\ sent' = Send(sent, i, sidx, stmts[sidx], Step.adapter, <<>>)
  /\ EndStep(FALSE, Error("BackendError", <<"query">>), Len(sent) + 1,
             Connected(adapters, StepAt, StepConn.conn))
  /\ UNCHANGED <<config, callerData, constructed, dataRef, ownData, initData,
                 stmts, sidx, results, nCloseCalls, nRuns, lastResult, lastErr, runStart,
                 renderLog, asmLog, outputRendered, made, handles, closeCnt>>
  /\ UNCHANGED unitVars

\* execute_query: the statement is sent and returns n rows, which extend the
\* step's results.  A MySQL connection whose pool was set to None by close()
\* cannot return rows.
ExecStatement(n) ==
  /\ pc = "exec"
  /\ StepConn.ok
  /\ ~(StepConn.conn = "Mysql" /\ adapters[StepAt].closed)
  /\ adapters' = Connected(adapters, StepAt, StepConn.conn)
  /\ built' = IF StepConn.construct THEN [built EXCEPT ![Step.adapter] = @ + 1] ELSE built
  /\ sent' = Send(sent, i, sidx, stmts[sidx], Step.adapter, Rows(i, sidx, n))
  /\ results' = results \o Rows(i, sidx, n)
  /\ IF sidx < Len(stmts)
     THEN sidx' = sidx + 1 /\ pc' = "exec"
     ELSE sidx' = sidx /\ pc' = "assemble"
  /\ UNCHANGED <<config, callerData, constructed, dataRef, ownData, initData,
                 i, stmts, err, closeVars, nCloseCalls, nRuns, lastResult, lastErr,
                 runStart, renderLog, asmLog, outputRendered, failedStep, sentAtFail, made,
                 handles, closeCnt>>
  /\ UNCHANGED unitVars

\* self.data after a call that leaves the dict as d.
WriteData(d) ==
  IF dataRef = "caller"
  THEN callerData' = d /\ UNCHANGED ownData
  ELSE ownData' = d /\ UNCHANGED callerData

\* process(), line 114: _update_data_structure(query.table, results); it
\* returns, or raises TypeError on a path through a value that is no dict.
Assemble ==
  /\ pc = "assemble"
  /\ LET r == UpdateDataStructure(Data, Step.table, results)
     IN  /\ WriteData(r.data)
         /\ asmLog' = Append(asmLog, [step |-> i, table |-> Step.table, rows |-> results,
                                      ok |-> r.ok, before |-> Data, after |-> r.data])
         /\ EndStep(r.ok, Error("TypeError", <<>>), Len(sent), adapters)
  /\ UNCHANGED <<config, constructed, dataRef, initData, adapters, stmts, sidx,
                 results, nCloseCalls, nRuns, lastResult, lastErr, runStart, sent,
                 renderLog, outputRendered, made, built, handles, closeCnt>>
  /\ UNCHANGED unitVars

\* process(), lines 116-119: the output template is rendered; the finally
\* clause then closes the adapters.
RenderOutput ==
  /\ pc = "output"
  /\ outputRendered' = TRUE
  /\ pc' = "closing"
  /\ BeginClose("process", adapters)
  /\ UNCHANGED <<config, callerData, procVars, stepVars, err, nCloseCalls, nRuns,
                 lastResult, lastErr, runStart, sent, renderLog, asmLog,
                 failedStep, sentAtFail, made, built, handles, closeCnt>>
  /\ UNCHANGED unitVars

\* process(), lines 116-122: rendering the output template raises.
RenderOutputFails ==
  /\ pc = "output"
  /\ outputRendered' = TRUE
  /\ pc' = "closing"
  /\ err' = Error("TemplateError", <<"output">>)
  /\ BeginClose("process", adapters)
  /\ UNCHANGED <<config, callerData, procVars, stepVars, nCloseCalls, nRuns,
                 lastResult, lastErr, runStart, sent, renderLog, asmLog,
                 failedStep, sentAtFail, made, built, handles, closeCnt>>
  /\ UNCHANGED unitVars

\* -------------------------------------------------------------------- close

\* Whether closing a connection of this class can raise: the MySQL close
\* catches the exceptions of its connections, the SQLite one does nothing,
\* the HTTP one calls session.close() unguarded.
CloseMayRaise(cls) == cls = "Http"

\* DatabaseAdapter.close() without its test: the connection's close() is
\* called whether or not a connection was ever made.
HasConnectionAlways(ad) == TRUE

\* DatabaseAdapter.close(), line 288: "if self._connection".
HasConnection(ad) == ad.conn # "none"

\* The cache after adapter.close() returned on entry j.
Closed(cache, j) ==
  IF cache[j].conn = "none" THEN cache ELSE [cache EXCEPT ![j].closed = TRUE]

\* QueryProcessor.close(), one turn of the loop: adapter.close() on the
\* cidx-th cached adapter.  raises says whether the connection's close raises.
\* An exception leaves close() at once: the later adapters are not closed,
\* the cache is not cleared, and inside process() it is what propagates.
CloseAdapter(raises) ==
  /\ pc = "closing"
  /\ cidx <= Len(adapters)
  /\ raises => CloseMayRaise(adapters[cidx].conn)
  /\ closedNow' = [closedNow EXCEPT ![adapters[cidx].name] = @ + 1]
  /\ closeCnt' = IF adapters[cidx].fresh
                 THEN [closeCnt EXCEPT ![adapters[cidx].name] = @ + 1] ELSE closeCnt
  /\ connClosed' = IF adapters[cidx].fresh /\ HasConnection(adapters[cidx])
                   THEN [connClosed EXCEPT ![adapters[cidx].name] = @ + 1] ELSE connClosed
  /\ IF raises
     THEN /\ pc' = "idle"
          /\ closeRet' = "raised"
          /\ lastResult' = IF closeFrom = "process" THEN "raised" ELSE lastResult
          /\ lastErr' = IF closeFrom = "process" THEN Error("CloseError", <<adapters[cidx].name>>)
                        ELSE lastErr
          /\ UNCHANGED <<adapters, cidx>>
     ELSE /\ adapters' = Closed(adapters, cidx)
          /\ cidx' = cidx + 1
          /\ UNCHANGED <<pc, closeRet, lastResult, lastErr>>
  /\ UNCHANGED <<config, callerData, constructed, dataRef, ownData, initData,
                 stepVars, err, closeFrom, closeStart, nCloseCalls, nRuns, runStart, sent,
                 renderLog, asmLog, outputRendered, failedStep, sentAtFail, made, built, handles>>
  /\ UNCHANGED unitVars

\* QueryProcessor.close(), line 36: the loop is over, the cache is cleared and
\* close() returns; process() then returns the document or re-raises.
FinishClose ==
  /\ pc = "closing"
  /\ cidx > Len(adapters)
  /\ adapters' = <<>>
  /\ closeRet' = "ok"
  /\ pc' = "idle"
  /\ lastResult' = IF closeFrom # "process" THEN lastResult
                   ELSE IF err = NoError THEN "document" ELSE "raised"
  /\ lastErr' = IF closeFrom = "process" THEN err ELSE lastErr
  /\ UNCHANGED <<config, callerData, constructed, dataRef, ownData, initData,
                 stepVars, err, cidx, closeFrom, closeStart, closedNow, connClosed,
                 nCloseCalls, nRuns, histVars>>
  /\ UNCHANGED unitVars

\* The caller calls close(), directly or through __exit__.
CallClose ==
  /\ pc = "idle"
  /\ constructed
  /\ nCloseCalls < MaxCloseCalls
  /\ nCloseCalls' = nCloseCalls + 1
  /\ pc' = "closing"
  /\ BeginClose("caller", adapters)
  /\ UNCHANGED <<config, callerData, procVars, stepVars, err, nRuns, lastResult,
                 lastErr, histVars>>
  /\ UNCHANGED unitVars

\* --------------------------------------------------------------------- spec

Next ==
  \/ \E arg \in {"None", "dict"} : Construct(arg)
  \/ StartProcess
  \/ RenderQueryFails
  \/ \E text \in Texts : RenderQuery(text)
  \/ ExecConfigError
  \/ ExecPoolError
  \/ ExecQueryError
  \/ \E n \in RowCounts : ExecStatement(n)
  \/ Assemble
  \/ RenderOutput
  \/ RenderOutputFails
  \/ \E raises \in BOOLEAN : CloseAdapter(raises)
  \/ FinishClose
  \/ CallClose

Spec == Init /\ [][Next]_vars

\* ------------------------------------------------- assembly on its own

\* The Context Assembler as a function of its inputs: the dict self.data is
\* drawn from StartContexts and grows by any sequence of
\* _update_data_structure calls, each with a table path of Tables and a result
\* sequence of up to MaxRows rows.

TableD == <<"d">>

Tables == {TableT, TableD, TableDT, TableDAT, TableDTU}

\* {}, {"d": "v"} and {"d": {"x": "v"}}.
StartContexts ==
  { EmptyMap,
    SetKey(EmptyMap, <<"d">>, Scalar(0)),
    SetKey(EmptyMap, <<"d">>, MapVal(SetKey(EmptyMap, <<"x">>, Scalar(0)))) }

\* A result sequence of n rows, each different.
RowSeq(n) == [j \in 1..n |-> Row(j)]

InitAssemble ==
  /\ config = Config(AllSections, [n \in {"db"} |-> SqliteOk], <<>>)
  /\ callerData = EmptyMap
  /\ constructed = TRUE
  /\ dataRef = "own"
  /\ ownData \in StartContexts
  /\ initData = EmptyMap
  /\ adapters = <<>>
  /\ pc = "idle"
  /\ i = 0
  /\ stmts = <<>>
  /\ sidx = 0
  /\ results = <<>>
  /\ err = NoError
  /\ cidx = 0
  /\ closeFrom = "none"
  /\ nCloseCalls = 0
  /\ nRuns = 0
  /\ lastResult = "none"
  /\ lastErr = NoError
  /\ runStart = ownData
  /\ sent = <<>>
  /\ renderLog = <<>>
  /\ asmLog = <<>>
  /\ outputRendered = FALSE
  /\ failedStep = 0
  /\ sentAtFail = 0
  /\ made = Zero
  /\ built = Zero
  /\ handles = <<>>
  /\ closeCnt = Zero
  /\ closeStart = {}
  /\ closedNow = Zero
  /\ closeRet = "none"
  /\ connClosed = Zero
  /\ UnitsAtRest

\* One call _update_data_structure(table, rows); asmLog keeps the last call.
AssembleCall(table, rows) ==
  /\ LET r == UpdateDataStructure(Data, table, rows)
     IN  /\ WriteData(r.data)
         /\ asmLog' = <<[step |-> 0, table |-> table, rows |-> rows,
                         ok |-> r.ok, before |-> Data, after |-> r.data]>>
  /\ UNCHANGED <<config, constructed, dataRef, initData, adapters, pc, stepVars,
                 err, closeVars, nCloseCalls, nRuns, lastResult, lastErr,
                 runStart, sent, renderLog, outputRendered, failedStep,
                 sentAtFail, made, built, handles, closeCnt>>
  /\ UNCHANGED unitVars

NextAssemble == \E table \in Tables, n \in 0..MaxRows : AssembleCall(table, RowSeq(n))

SpecAssemble == InitAssemble /\ [][NextAssemble]_vars

\* ------------------------------------------- one query step on its own

\* _process_query as a function of the rendered text: process() has reached
\* its only step, whose template renders to any text of up to MaxTextLen
\* characters out of "x", "y", ";" and " "; the statements are executed one by
\* one, each returning rows or raising, and the results are assembled.

Chars == {"x", "y", ";", " "}

SplitTexts == UNION {[1..n -> Chars] : n \in 0..MaxTextLen}

InitStep ==
  /\ config = Config(AllSections, [n \in {"db"} |-> SqliteOk], <<Query(TableT, "db")>>)
  /\ callerData = EmptyMap
  /\ constructed = TRUE
  /\ dataRef = "own"
  /\ ownData = EmptyMap
  /\ initData = EmptyMap
  /\ adapters = <<>>
  /\ pc = "render"
  /\ i = 1
  /\ stmts = <<>>
  /\ sidx = 0
  /\ results = <<>>
  /\ err = NoError
  /\ cidx = 0
  /\ closeFrom = "none"
  /\ nCloseCalls = 0
  /\ nRuns = 1
  /\ lastResult = "none"
  /\ lastErr = NoError
  /\ runStart = EmptyMap
  /\ sent = <<>>
  /\ renderLog = <<>>
  /\ asmLog = <<>>
  /\ outputRendered = FALSE
  /\ failedStep = 0
  /\ sentAtFail = 0
  /\ made = Zero
  /\ built = Zero
  /\ handles = <<>>
  /\ closeCnt = Zero
  /\ closeStart = {}
  /\ closedNow = Zero
  /\ closeRet = "none"
  /\ connClosed = Zero
  /\ UnitsAtRest

NextStep ==
  \/ \E text \in SplitTexts : RenderQuery(text)
  \/ \E n \in RowCounts : ExecStatement(n)
  \/ ExecQueryError
  \/ Assemble

SpecStep == InitStep /\ [][NextStep]_vars

\* ------------------------------------------- the MySQL backend on its own

\* One MysqlDatabaseConnection: it is constructed from any settings, then
\* used sequentially through query() and close(); a caller may also enter
\* get_connection() and never leave it.  The pool, the cursor and the
\* connections are the environment: each of their calls returns or raises.

\* No QueryProcessor is in use.
PipelineAtRest ==
  /\ config = Config(AllSections, [n \in {"aux"} |-> MysqlOk], <<>>)
  /\ callerData = EmptyMap
  /\ constructed = FALSE
  /\ dataRef = "own"
  /\ ownData = EmptyMap
  /\ initData = EmptyMap
  /\ adapters = <<>>
  /\ pc = "idle"
  /\ i = 0
  /\ stmts = <<>>
  /\ sidx = 0
  /\ results = <<>>
  /\ err = NoError
  /\ cidx = 0
  /\ closeFrom = "none"
  /\ nCloseCalls = 0
  /\ nRuns = 0
  /\ lastResult = "none"
  /\ lastErr = NoError
  /\ runStart = EmptyMap
  /\ sent = <<>>
  /\ renderLog = <<>>
  /\ asmLog = <<>>
  /\ outputRendered = FALSE
  /\ failedStep = 0
  /\ sentAtFail = 0
  /\ made = Zero
  /\ built = Zero
  /\ handles = <<>>
  /\ closeCnt = Zero
  /\ closeStart = {}
  /\ closedNow = Zero
  /\ closeRet = "none"
  /\ connClosed = Zero

\* required_attrs of the MySQL backend, as a set.
MysqlFields == {"user", "password", "host", "port", "database"}

\* The settings a MySQL backend may be constructed from: each required field
\* is set (present), set to an empty value (empty) or not given at all.
MysqlSettings ==
  { st \in [adapter : {"mysql", "mysql2"}, present : SUBSET MysqlFields,
            empty : SUBSET MysqlFields] : st.present \cap st.empty = {} }

InitMysql ==
  /\ PipelineAtRest
  /\ mySettings \in MysqlSettings
  /\ MysqlAtRest
  /\ queryData = QueryData("null", "missing", "missing")
  /\ basePayloadCsv = FALSE
  /\ HttpAtRest
  /\ responseText = <<>>
  /\ parsed = NotParsed

\* MysqlDatabaseConnection.__init__: the required settings are checked, then
\* the pool is set up; poolOk says whether MySQLConnectionPool() returns.
MysqlInit(poolOk) ==
  /\ myState = "new"
  /\ LET missing_attrs == MissingAttrs("Mysql", mySettings)
     IN  IF missing_attrs # <<>>
         THEN /\ myState' = "failed"
              /\ initErr' = Error("ValueError: missing settings", missing_attrs)
              /\ pool' = "unset"
         ELSE IF ~poolOk
         THEN /\ myState' = "failed"
              /\ initErr' = Error("BackendError", <<"pool">>)
              /\ pool' = "None"
         ELSE /\ myState' = "ready"
              /\ initErr' = NoError
              /\ pool' = "pool"
  /\ UNCHANGED <<pipeVars, httpVars, csvVars, mySettings, activeConnections, issued, connCloses, qpc,
                 qconn, qraised, nQueries, nBackendCloses, abandoned, lastQuery,
                 trackedAtClose>>

\* query() enters get_connection(): pool.get_connection() returns a new
\* connection, which is added to the active set, or raises (ok = FALSE, the
\* pool is exhausted, or self.pool is None); then query() raises at once.
MysqlBorrow(ok) ==
  /\ myState = "ready"
  /\ qpc = "idle"
  /\ nQueries < MaxQueries
  /\ nQueries' = nQueries + 1
  /\ IF pool = "pool" /\ ok /\ issued < MaxConns
     THEN /\ issued' = issued + 1
          /\ qconn' = issued + 1
          /\ activeConnections' = activeConnections \cup {issued + 1}
          /\ qpc' = "with"
          /\ lastQuery' = [outcome |-> "none", conn |-> issued + 1,
                           before |-> activeConnections, after |-> {}]
     ELSE /\ lastQuery' = [outcome |-> "raised", conn |-> 0,
                           before |-> activeConnections, after |-> activeConnections]
          /\ UNCHANGED <<issued, qconn, activeConnections, qpc>>
  /\ qraised' = FALSE
  /\ UNCHANGED <<pipeVars, httpVars, csvVars, mySettings, myState, initErr, pool, connCloses,
                 nBackendCloses, abandoned, trackedAtClose>>

\* query(), line 104: conn.cursor(dictionary=True) returns or raises.
MysqlCursor(ok) ==
  /\ qpc = "with"
  /\ qpc' = IF ok THEN "cursor" ELSE "release"
  /\ qraised' = ~ok
  /\ UNCHANGED <<pipeVars, httpVars, csvVars, mySettings, myState, initErr, pool, activeConnections,
                 issued, connCloses, qconn, nQueries, nBackendCloses, abandoned,
                 lastQuery, trackedAtClose>>

\* query(), lines 105-111: cursor.execute() and cursor.fetchall() return the
\* rows, or one of them raises.
MysqlExecute(outcome) ==
  /\ qpc = "cursor"
  /\ qpc' = "cursorclose"
  /\ qraised' = (outcome # "rows")
  /\ UNCHANGED <<pipeVars, httpVars, csvVars, mySettings, myState, initErr, pool, activeConnections,
                 issued, connCloses, qconn, nQueries, nBackendCloses, abandoned,
                 lastQuery, trackedAtClose>>

\* query(), lines 112-113: cursor.close() in the finally clause.
MysqlCursorClose(ok) ==
  /\ qpc = "cursorclose"
  /\ qpc' = "release"
  /\ qraised' = (qraised \/ ~ok)
  /\ UNCHANGED <<pipeVars, httpVars, csvVars, mySettings, myState, initErr, pool, activeConnections,
                 issued, connCloses, qconn, nQueries, nBackendCloses, abandoned,
                 lastQuery, trackedAtClose>>

\* The release with the removal from the active set left out.
ReleasedActiveLeak(active, conn) == active

\* get_connection(), lines 98-99: the connection leaves the active set.
ReleasedActive(active, conn) == active \ {conn}

\* get_connection(), lines 97-100: the finally clause releases the
\* connection; conn.close() returns or raises, and query() returns its rows
\* or raises.
MysqlRelease(ok) ==
  /\ qpc = "release"
  /\ activeConnections' = ReleasedActive(activeConnections, qconn)
  /\ connCloses' = [connCloses EXCEPT ![qconn] = @ + 1]
  /\ lastQuery' = [lastQuery EXCEPT
                     !.outcome = IF qraised \/ ~ok THEN "raised" ELSE "rows",
                     !.after = ReleasedActive(activeConnections, qconn)]
  /\ qpc' = "idle"
  /\ qconn' = 0
  /\ qraised' = FALSE
  /\ UNCHANGED <<pipeVars, httpVars, csvVars, mySettings, myState, initErr, pool, issued, nQueries,
                 nBackendCloses, abandoned, trackedAtClose>>

\* A caller enters get_connection() itself and never leaves the with block:
\* the connection stays in the active set.
MysqlAbandon ==
  /\ myState = "ready"
  /\ qpc = "idle"
  /\ pool = "pool"
  /\ issued < MaxConns
  /\ issued' = issued + 1
  /\ activeConnections' = activeConnections \cup {issued + 1}
  /\ abandoned' = abandoned \cup {issued + 1}
  /\ UNCHANGED <<pipeVars, httpVars, csvVars, mySettings, myState, initErr, pool, connCloses, qpc,
                 qconn, qraised, nQueries, nBackendCloses, lastQuery, trackedAtClose>>

\* MysqlDatabaseConnection.close(): with a pool, conn.close() is called on
\* every active connection; one whose close raises (those in `failing`) is
\* logged and stays in the active set, the others are removed; then
\* self.pool = None.  Without a pool nothing is done.
MysqlClose(failing) ==
  /\ myState = "ready"
  /\ qpc = "idle"
  /\ nBackendCloses < MaxBackendCloses
  /\ nBackendCloses' = nBackendCloses + 1
  /\ failing \subseteq activeConnections
  /\ IF pool = "pool"
     THEN /\ connCloses' = [c \in DOMAIN connCloses |->
                              IF c \in activeConnections THEN connCloses[c] + 1
                              ELSE connCloses[c]]
          /\ activeConnections' = failing
          /\ trackedAtClose' = trackedAtClose \cup activeConnections
          /\ pool' = "None"
     ELSE UNCHANGED <<connCloses, activeConnections, trackedAtClose, pool>>
  /\ UNCHANGED <<pipeVars, httpVars, csvVars, mySettings, myState, initErr, issued, qpc, qconn,
                 qraised, nQueries, abandoned, lastQuery>>

NextMysql ==
  \/ \E poolOk \in BOOLEAN : MysqlInit(poolOk)
  \/ \E ok \in BOOLEAN : MysqlBorrow(ok)
  \/ \E ok \in BOOLEAN : MysqlCursor(ok)
  \/ \E outcome \in {"rows", "execute raises", "fetchall raises"} : MysqlExecute(outcome)
  \/ \E ok \in BOOLEAN : MysqlCursorClose(ok)
  \/ \E ok \in BOOLEAN : MysqlRelease(ok)
  \/ MysqlAbandon
  \/ \E failing \in SUBSET (1..MaxConns) : MysqlClose(failing)

SpecMysql == InitMysql /\ [][NextMysql]_vars

\* --------------------------------------------- the CSV parser on its own

\* _parse_csv_response on bodies without quotes: csv.reader then yields one
\* record per line, the line split at its commas, and [] for an empty line.

\* str.lower() on the characters in use: "A" is the one capital.
LowerChar(c) == IF c = "A" THEN "a" ELSE c

LowerText(str) == [j \in 1..Len(str) |-> LowerChar(str[j])]

\* The lines StringIO hands to the reader: the text cut at its newlines; a
\* newline at the end opens no further line and the empty text has none.
CsvLines(text) ==
  LET frags == Split(text, "\n")
  IN  IF frags[Len(frags)] = <<>> THEN SubSeq(frags, 1, Len(frags) - 1) ELSE frags

\* The record csv.reader makes of a line.
CsvRecord(line) == IF line = <<>> THEN <<>> ELSE Split(line, ",")

\* The header names taken as they are written, not lowercased.
HeadersAsWritten(record) == record

\* [header.lower() for header in next(reader)]
Headers(record) == [h \in 1..Len(record) |-> LowerText(record[h])]

\* {headers[i]: val for i, val in enumerate(row) if i < len(headers)}: a
\* dict, so of two columns under one header name the later one stays.
RowDict(headers, row) ==
  LET n == IF Len(row) < Len(headers) THEN Len(row) ELSE Len(headers)
      Last(name) == CHOOSE c \in 1..n :
                      headers[c] = name /\ \A h \in (c + 1)..n : headers[h] # name
  IN  [name \in {headers[c] : c \in 1..n} |-> row[Last(name)]]

\* The loop over the data records: an empty record is skipped.
RECURSIVE CsvRows(_, _)
CsvRows(headers, records) ==
  IF records = <<>> THEN <<>>
  ELSE IF Head(records) = <<>> THEN CsvRows(headers, Tail(records))
  ELSE <<RowDict(headers, Head(records))>> \o CsvRows(headers, Tail(records))

\* _parse_csv_response(response_text): the rows, or the exception next(reader)
\* raises when there is no first line.
ParseCsvResponse(text) ==
  LET lines == CsvLines(text)
  IN  IF lines = <<>> THEN [done |-> TRUE, ok |-> FALSE, rows |-> <<>>]
      ELSE [done |-> TRUE, ok |-> TRUE,
            rows |-> CsvRows(Headers(CsvRecord(lines[1])),
                             [k \in 1..(Len(lines) - 1) |-> CsvRecord(lines[k + 1])])]

CsvChars == {"A", "b", ",", "\n"}

Bodies == UNION {[1..n -> CsvChars] : n \in 0..MaxBodyLen}

InitCsv ==
  /\ PipelineAtRest
  /\ mySettings = MysqlOk
  /\ MysqlAtRest
  /\ queryData = QueryData("null", "missing", "missing")
  /\ basePayloadCsv = FALSE
  /\ HttpAtRest
  /\ responseText \in Bodies
  /\ parsed = NotParsed

ParseCsv ==
  /\ ~parsed.done
  /\ parsed' = ParseCsvResponse(responseText)
  /\ UNCHANGED <<pipeVars, mysqlVars, httpVars, responseText>>

NextCsv == ParseCsv

SpecCsv == InitCsv /\ [][NextCsv]_vars

\* -------------------------------------------- the HTTP backend on its own

\* One HttpDatabaseConnection.query(query) call.  json.loads, the session
\* and the server are the environment: the query text is or is not JSON, of
\* some type, and a request fails or brings a response.

\* What json.loads(query) may give: it raises ("invalid"), or returns a list,
\* a string, a number, null, or an object whose "endpoint" is missing, "",
\* null or a path and whose "payload" is missing, an object without or with
\* csv = 1, or a list.
QueryDatas ==
  {QueryData(k, "missing", "missing") : k \in {"invalid", "list", "string", "number", "null"}}
    \cup {QueryData("dict", e, pl) : e \in {"missing", "empty", "null", "e"},
                                     pl \in {"missing", "plain", "csv", "list"}}

\* The bodies a response may carry in CSV mode: "" and "A" / "b".
HttpBodies == { <<>>, <<"A", "\n", "b">> }

\* A response: what response.json() gives (a list, an object, another value,
\* or it raises) and response.text.
Responses ==
  {[json |-> j, text |-> t] : j \in {"list", "dict", "scalar", "invalid"}, t \in HttpBodies}

InitHttp ==
  /\ PipelineAtRest
  /\ mySettings = MysqlOk
  /\ MysqlAtRest
  /\ queryData \in QueryDatas
  /\ basePayloadCsv \in BOOLEAN
  /\ HttpAtRest
  /\ responseText = <<>>
  /\ parsed = NotParsed

\* query() ended with an exception.
Raised(type) == [outcome |-> "raised", err |-> Error(type, <<>>), rows |-> <<>>]

\* query() with the test of the endpoint left out.
EndpointUnchecked(q) == FALSE

\* "if not endpoint", after query_data.get("endpoint", "").
EndpointMissing(q) == q.endpoint \in {"missing", "empty", "null"}

\* query(), lines 225-234: the query text is parsed and looked at.
HttpParseQuery ==
  /\ hpc = "idle"
  /\ IF queryData.kind = "invalid"
     THEN hpc' = "done" /\ httpResult' = Raised("JSONDecodeError")
     ELSE IF queryData.kind # "dict"
     THEN hpc' = "done" /\ httpResult' = Raised("ValueError: not an object")
     ELSE IF EndpointMissing(queryData)
     THEN hpc' = "done" /\ httpResult' = Raised("ValueError: no endpoint")
     ELSE hpc' = "request" /\ UNCHANGED httpResult
  /\ UNCHANGED <<pipeVars, mysqlVars, csvVars, queryData, basePayloadCsv,
                 requestsSent, response>>

\* _make_request: the payloads are merged (a payload that is no object
\* raises TypeError there), then the request is issued; it fails
\* (RequestException, from the session or from raise_for_status) or brings
\* the response resp.
HttpMakeRequest(outcome, resp) ==
  /\ hpc = "request"
  /\ IF queryData.payload = "list"
     THEN /\ hpc' = "done"
          /\ httpResult' = Raised("TypeError")
          /\ UNCHANGED <<requestsSent, response>>
     ELSE /\ requestsSent' = requestsSent + 1
          /\ IF outcome = "ok"
             THEN hpc' = "response" /\ response' = resp /\ UNCHANGED httpResult
             ELSE /\ hpc' = "done"
                  /\ httpResult' = Raised("RequestException")
                  /\ UNCHANGED response
  /\ UNCHANGED <<pipeVars, mysqlVars, csvVars, queryData, basePayloadCsv>>

\* _parse_json_response(response.json()): a list as it is, an object as a
\* list of one, anything else is a ValueError; response.json() itself raises
\* on a body that is no JSON.
ParseJsonResponse(json) ==
  CASE json = "list" -> [outcome |-> "rows", err |-> NoError, rows |-> <<Row(1), Row(2)>>]
    [] json = "dict" -> [outcome |-> "rows", err |-> NoError, rows |-> <<Row(1)>>]
    [] json = "scalar" -> Raised("ValueError: unexpected JSON type")
    [] OTHER -> Raised("JSONDecodeError")

\* query(), lines 240-243: the response is parsed as CSV when the base
\* payload or the query's payload has csv = 1, as JSON otherwise.
HttpParseResponse ==
  /\ hpc = "response"
  /\ hpc' = "done"
  /\ IF basePayloadCsv \/ queryData.payload = "csv"
     THEN LET r == ParseCsvResponse(response.text)
          IN  httpResult' = IF r.ok
                            THEN [outcome |-> "rows", err |-> NoError, rows |-> r.rows]
                            ELSE Raised("StopIteration")
     ELSE httpResult' = ParseJsonResponse(response.json)
  /\ UNCHANGED <<pipeVars, mysqlVars, csvVars, queryData, basePayloadCsv,
                 requestsSent, response>>

NextHttp ==
  \/ HttpParseQuery
  \/ \E outcome \in {"ok", "failed"}, resp \in Responses : HttpMakeRequest(outcome, resp)
  \/ HttpParseResponse

SpecHttp == InitHttp /\ [][NextHttp]_vars

\* ------------------------------------------------------------------ claims

Queries == config.queries

\* process() has returned to its caller.
Returned == pc = "idle" /\ lastResult # "none"

\* The settings of adapter `name` pass the validation of their kind.
ValidSettings(name) ==
  /\ name \in DOMAIN config.adapter_settings
  /\ ConnectionClass(config.adapter_settings[name].adapter) # "none"
  /\ MissingAttrs(ConnectionClass(config.adapter_settings[name].adapter),
                  config.adapter_settings[name]) = <<>>

\* The value a Context holds at a path, Absent where the path leads nowhere.
Absent == [kind |-> "absent", v |-> 0, kids |-> EmptyMap, items |-> <<>>]

RECURSIVE Lookup(_, _)
Lookup(val, parts) ==
  IF parts = <<>> THEN val
  ELSE IF val.kind # "map" THEN Absent
  ELSE IF parts[1] \notin DOMAIN val.kids THEN Absent
  ELSE Lookup(val.kids[parts[1]], Tail(parts))

\* Some value on the way to the leaf of the path exists and is no dict.
Blocked(data, parts) ==
  \E k \in 1..(Len(parts) - 1) :
    Lookup(MapVal(data), SubSeq(parts, 1, k)).kind \notin {"map", "absent"}

\* The Context that results from `start` by the assemblies of a log that
\* returned, in order.
RECURSIVE Replay(_, _)
Replay(start, log) ==
  IF log = <<>> THEN start
  ELSE IF ~log[1].ok THEN Replay(start, Tail(log))
  ELSE Replay(UpdateDataStructure(start, log[1].table, log[1].rows).data, Tail(log))

\* The Contexts a log passes through: entry k is Replay of its first k - 1
\* assemblies, so the last one is Replay of the whole log.
RECURSIVE Contexts(_, _)
Contexts(start, log) ==
  IF log = <<>> THEN <<start>>
  ELSE <<start>> \o Contexts(Replay(start, <<log[1]>>), Tail(log))

\* C1: when process() has returned, with a document or an error, every adapter
\* instantiated during the run has had close invoked exactly once, and this
\* stays so when the caller calls close() again (the context manager's exit).
C1_EveryAdapterClosedOnce ==
  Returned => \A n \in Names : made[n] > 0 => closeCnt[n] = 1

\* C2: a close() of the processor that has ended did not propagate a failure
\* and invoked close exactly once on every adapter that was cached when it
\* began, whichever of them fail to close.
C2_CloseAllTolerant ==
  closeRet # "none" =>
    /\ closeRet = "ok"
    /\ \A n \in closeStart : closedNow[n] = 1

\* C3: the error process() propagates is the one its steps or its output
\* rendering raised, also when a close fails during teardown; a run that
\* raised nothing returns its document.
C3_OriginalErrorPropagates ==
  Returned =>
    /\ lastErr = err
    /\ (err = NoError => lastResult = "document")

\* C4: once step i has failed, nothing more is sent to a backend (no later
\* statement of step i, no statement of a later step), no later step is
\* rendered or assembled, the output template is not rendered and process()
\* returns no document.
C4_FailFast ==
  failedStep # 0 =>
    /\ Len(sent) = sentAtFail
    /\ \A k \in 1..Len(sent) : sent[k].step <= failedStep
    /\ Len(renderLog) = failedStep
    /\ \A k \in 1..Len(asmLog) : asmLog[k].step <= failedStep
    /\ ~outputRendered
    /\ lastResult # "document"
    /\ (Returned => lastResult = "raised")

\* C4 witness: the first of two statements of step 1 failed, a second step
\* was declared, and process() has raised.
C4_Witness ==
  /\ Returned
  /\ failedStep = 1
  /\ Len(Queries) >= 2
  /\ Len(stmts) = 2
  /\ Len(sent) = 1

\* C5: the steps are rendered in declared order, each once; step k is
\* rendered against the Context the run began with plus the assembled results
\* of exactly the steps before k; the Context is written once per step that
\* succeeded and by nothing else; a run that returns a document has processed
\* every step.
C5_OrderedSteps ==
  LET passed == Contexts(runStart, asmLog)
  IN  /\ \A k \in 1..Len(renderLog) :
           /\ renderLog[k].step = k
           /\ Len(asmLog) >= k - 1
           /\ \A j \in 1..(k - 1) : asmLog[j].ok
           /\ renderLog[k].ctx = passed[k]
      /\ \A k \in 1..Len(asmLog) :
           /\ asmLog[k].step = k
           /\ asmLog[k].table = Queries[k].table
           /\ k <= Len(renderLog)
      /\ Len(renderLog) <= Len(asmLog) + 1
      /\ Data = passed[Len(asmLog) + 1]
      /\ (lastResult = "document" =>
            /\ Len(asmLog) = Len(Queries)
            /\ \A k \in 1..Len(asmLog) : asmLog[k].ok)

\* C5 witness: a run of three steps returned its document, and its second step
\* was rendered against a Context that holds the first step's rows.
C5_Witness ==
  /\ lastResult = "document"
  /\ Len(renderLog) = 3
  /\ renderLog[2].ctx # runStart
  /\ renderLog[3].ctx # renderLog[2].ctx

\* C6: a configuration in which some step names an undeclared adapter is
\* rejected before any step executes: no statement is ever sent to a backend.
C6_ValidatedBeforeExecution ==
  (\E k \in 1..Len(Queries) : Queries[k].adapter \notin DOMAIN config.adapter_settings)
    => sent = <<>>

\* C7: in one run at most one adapter and at most one connection are
\* constructed per name, every request for a name returns the same handle,
\* and a name is constructed only if a step that was reached references it.
C7_OneBackendPerName ==
  /\ \A n \in Names :
       /\ made[n] <= 1
       /\ built[n] <= 1
       /\ made[n] > 0 => \E k \in 1..Len(renderLog) : Queries[k].adapter = n
       /\ built[n] > 0 => \E k \in 1..Len(sent) : sent[k].adapter = n
  /\ \A a, b \in 1..Len(handles) :
       handles[a].name = handles[b].name => handles[a].id = handles[b].id

\* C7 witness: two steps used the same adapter, three statements were sent
\* through it, and one adapter with one connection was constructed.
C7_Witness ==
  /\ Len(handles) >= 2
  /\ handles[1].name = handles[2].name
  /\ Len(sent) >= 3
  /\ made[handles[1].name] = 1
  /\ built[handles[1].name] = 1

\* C8: a step whose adapter has settings that lack a required field, or an
\* unrecognized kind, fails at the request for its adapter whatever its
\* query renders to: it never gets as far as assembling results.
C8_ValidatedAtFirstRequest ==
  \A k \in 1..Len(asmLog) : ValidSettings(Queries[asmLog[k].step].adapter)

\* C9: the writes of a run stay in that run's Context: no step of any run
\* changes the caller's initial-values mapping, and a run begins with the
\* initial values its processor was given.
C9_ContextNotShared ==
  [][/\ callerData' = callerData
     /\ (nRuns' = nRuns + 1 => Data = initData)]_vars

\* C10: an assembly call that returns stores at the leaf of its path the
\* single row when the result has exactly one row and otherwise the whole
\* result, in order (the empty result as an empty sequence); a call fails only
\* where its path runs through a value that is no mapping, never because of
\* the rows.
C10_CollapseOnlySingleton ==
  \A k \in 1..Len(asmLog) :
    LET e == asmLog[k]
        parts == Split(e.table, ".")
        stored == Lookup(MapVal(e.after), parts)
    IN  /\ e.ok /\ Len(e.rows) = 1 => stored = e.rows[1]
        /\ e.ok /\ Len(e.rows) # 1 => stored.kind = "list" /\ stored.items = e.rows
        /\ ~e.ok <=> Blocked(e.before, parts)

\* C10 witness: a single row was stored as itself at the three-segment path
\* "d.a.t", next to a two-row list kept at "d.t".
C10_Witness ==
  /\ asmLog # <<>>
  /\ asmLog[1].ok
  /\ asmLog[1].table = TableDAT
  /\ Lookup(MapVal(Data), <<<<"d">>, <<"a">>, <<"t">>>>) = Row(1)
  /\ Lookup(MapVal(Data), <<<<"d">>, <<"t">>>>) = ListVal(RowSeq(2))

\* The dict {s1: {s2: ... {sn: value}}} for the parts s1..sn of a path.
RECURSIVE Chain(_, _)
Chain(parts, value) ==
  IF Len(parts) = 1 THEN SetKey(EmptyMap, parts[1], value)
  ELSE SetKey(EmptyMap, parts[1], MapVal(Chain(Tail(parts), value)))

\* C11: an assembly call at a path of two or more segments into an empty
\* Context returns and leaves exactly the chain of nested mappings, one level
\* per segment, with the stored value at the last segment and no other key.
C11_NestedChain ==
  \A k \in 1..Len(asmLog) :
    LET e == asmLog[k]
        parts == Split(e.table, ".")
    IN  (e.before = EmptyMap /\ Len(parts) >= 2) =>
          /\ e.ok
          /\ e.after = Chain(parts, Collapse(e.rows))

\* C11 witness: the three-segment path "d.a.t" was assembled into the empty
\* Context with a two-row result, which now sits two mappings deep.
C11_Witness ==
  /\ asmLog # <<>>
  /\ asmLog[1].before = EmptyMap
  /\ asmLog[1].table = TableDAT
  /\ DOMAIN Data = {<<"d">>}
  /\ DOMAIN Data[<<"d">>].kids = {<<"a">>}
  /\ Data[<<"d">>].kids[<<"a">>].kids[<<"t">>] = ListVal(RowSeq(2))

\* The keys and values of the mapping a Context holds at a path; no key where
\* the path leads nowhere.
KidsAt(data, q) ==
  LET val == Lookup(MapVal(data), q)
  IN  IF val.kind = "map" THEN val.kids ELSE EmptyMap

\* C12: an assembly call that returns changes, at every level of its path, only
\* the key the path goes through: the mapping at each proper prefix of the
\* path keeps all its other keys with their values (and gains the path's key
\* if it had none), down to the leaf, which alone is replaced.  A call that
\* raises leaves the Context as it was.
C12_NonDestructive ==
  \A k \in 1..Len(asmLog) :
    LET e == asmLog[k]
        parts == Split(e.table, ".")
    IN  /\ ~e.ok => e.after = e.before
        /\ e.ok =>
             \A j \in 0..(Len(parts) - 1) :
               LET q == SubSeq(parts, 1, j)
                   b == KidsAt(e.before, q)
                   a == KidsAt(e.after, q)
               IN  /\ DOMAIN a = DOMAIN b \cup {parts[j + 1]}
                   /\ \A key \in DOMAIN b \ {parts[j + 1]} : a[key] = b[key]

\* C12 witness: "d.a.t" was assembled again with other rows while "d.x" and
\* "d.t" were there: the leaf changed, the siblings are what they were.
C12_Witness ==
  /\ asmLog # <<>>
  /\ asmLog[1].ok
  /\ asmLog[1].table = TableDAT
  /\ Lookup(MapVal(asmLog[1].before), <<<<"d">>, <<"a">>, <<"t">>>>) = Row(1)
  /\ Lookup(MapVal(Data), <<<<"d">>, <<"a">>, <<"t">>>>) = ListVal(<<>>)
  /\ Lookup(MapVal(Data), <<<<"d">>, <<"x">>>>) = Scalar(0)
  /\ Lookup(MapVal(Data), <<<<"d">>, <<"t">>>>) = ListVal(RowSeq(2))

\* The places that bound the fragments of a text: every ";", the place
\* before the text and the place after it.
Bounds(text) == {0, Len(text) + 1} \cup {j \in 1..Len(text) : text[j] = ";"}

\* The fragments, each as the pair of bounds it lies between.
Fragments(text) ==
  {<<a, b>> \in Bounds(text) \X Bounds(text) :
     a < b /\ \A c \in Bounds(text) : ~(a < c /\ c < b)}

\* The characters of a fragment that are no blanks, by their places.
Inked(text, f) == {j \in (f[1] + 1)..(f[2] - 1) : text[j] # " "}

\* A fragment from its first character that is no blank to its last.
Trimmed(text, f) ==
  LET ink == Inked(text, f)
      lo == CHOOSE j \in ink : \A h \in ink : j <= h
      hi == CHOOSE j \in ink : \A h \in ink : h <= j
  IN  SubSeq(text, lo, hi)

\* The statements a text stands for: its fragments that hold a character
\* other than a blank, trimmed, from left to right.
Expected(text) ==
  LET live == {f \in Fragments(text) : Inked(text, f) # {}}
      Before(f) == Cardinality({g \in live : g[1] < f[1]})
  IN  [k \in 1..Cardinality(live) |->
         Trimmed(text, CHOOSE f \in live : Before(f) = k - 1)]

\* The statements of step s sent so far, and the rows they returned, joined.
SentOf(s) ==
  LET OfStep(e) == e.step = s
  IN  SelectSeq(sent, OfStep)

RECURSIVE RowsOf(_)
RowsOf(log) == IF log = <<>> THEN <<>> ELSE Head(log).rows \o RowsOf(Tail(log))

\* C13: the statements a step sends are, in order and once each, the trimmed
\* non-empty fragments of its rendered text between the ";"s, all to the
\* step's adapter; blank fragments are not sent; and the results the step
\* hands to assembly are the rows the statements returned, joined in that
\* order.
C13_StatementsInOrder ==
  \A s \in 1..Len(renderLog) :
    LET want == Expected(renderLog[s].text)
        mine == SentOf(s)
    IN  /\ Len(mine) <= Len(want)
        /\ \A k \in 1..Len(mine) :
             /\ mine[k].k = k
             /\ mine[k].text = want[k]
             /\ mine[k].adapter = Queries[s].adapter
        /\ (pc = "assemble" /\ i = s) =>
             Len(mine) = Len(want) /\ results = RowsOf(mine)
        /\ \A k \in 1..Len(asmLog) :
             asmLog[k].step = s =>
               Len(mine) = Len(want) /\ asmLog[k].rows = RowsOf(mine)

\* C13 witness: the text "x; ;y" was rendered, exactly "x" and then "y" were
\* sent, each returned a row, and the two rows were assembled in that order.
C13_Witness ==
  /\ Len(renderLog) = 1
  /\ renderLog[1].text = <<"x", ";", " ", ";", "y">>
  /\ Len(sent) = 2
  /\ sent[1].text = <<"x">>
  /\ sent[2].text = <<"y">>
  /\ Len(asmLog) = 1
  /\ asmLog[1].rows = Rows(1, 1, 1) \o Rows(1, 2, 1)

\* C14: constructing the MySQL backend from settings in which some required
\* field is absent or empty raises the missing-settings error, whose list
\* names every such field once and no field that is set, and no pool is
\* constructed; from settings with every field set no such error is raised.
C14_MissingFieldsListed ==
  myState # "new" =>
    LET missing == MysqlFields \ mySettings.present
        listed == {initErr.detail[k] : k \in 1..Len(initErr.detail)}
    IN  /\ mySettings.empty \subseteq missing
        /\ missing # {} =>
             /\ myState = "failed"
             /\ initErr.type = "ValueError: missing settings"
             /\ listed = missing
             /\ Len(initErr.detail) = Cardinality(missing)
             /\ pool = "unset"
             /\ issued = 0
        /\ missing = {} => initErr.type # "ValueError: missing settings"

\* C14 witness: the password is absent and the port is empty; the constructor
\* raised, naming exactly these two.
C14_Witness ==
  /\ myState = "failed"
  /\ mySettings.present = {"user", "host", "database"}
  /\ mySettings.empty = {"port"}
  /\ initErr.detail = <<"password", "port">>

\* C15: once close() has been called on a backend, whatever happened in that
\* call, the backend is in the closed state of a successful close: no
\* connection is still tracked as active and none was closed twice; further
\* close() calls keep it so.
C15_CloseIdempotent ==
  nBackendCloses > 0 =>
    /\ activeConnections = {}
    /\ \A c \in DOMAIN connCloses : connCloses[c] <= 1

\* A query payload the HTTP backend must refuse: text that is no JSON, JSON
\* that is no object, or an object whose endpoint is missing or empty.
Malformed(q) == q.kind # "dict" \/ q.endpoint \in {"missing", "empty"}

\* C16: in a query() call on a malformed payload no HTTP request is ever
\* issued: the call never gets to the request, and when it has ended it has
\* raised with no request sent.
C16_MalformedRaisesBeforeRequest ==
  Malformed(queryData) =>
    /\ requestsSent = 0
    /\ hpc \in {"idle", "done"}
    /\ response = NoResponse
    /\ hpc = "done" => httpResult.outcome = "raised"

\* C16 witness: a query that is a JSON object with an empty endpoint has
\* raised, and no request was sent.
C16_Witness ==
  /\ hpc = "done"
  /\ queryData = QueryData("dict", "empty", "plain")
  /\ httpResult.outcome = "raised"
  /\ httpResult.err.type = "ValueError: no endpoint"
  /\ requestsSent = 0

\* C17: a query() call that has ended, with rows or with an exception,
\* leaves the active set as it found it and has closed the connection it
\* borrowed exactly once; while a call is under way the active set holds
\* just its connection more; with no abandoned borrow the active set is empty
\* between calls.
C17_BorrowPairedWithRelease ==
  /\ lastQuery.outcome # "none" =>
       /\ lastQuery.after = lastQuery.before
       /\ lastQuery.conn # 0 =>
            /\ connCloses[lastQuery.conn] = 1
            /\ lastQuery.conn \notin activeConnections
  /\ (qpc = "idle" /\ abandoned = {}) => activeConnections = {}
  /\ qpc # "idle" =>
       /\ activeConnections = lastQuery.before \cup {qconn}
       /\ connCloses[qconn] = 0

\* C17 witness: with one abandoned connection in the active set, a second
\* query() borrowed a connection and raised; the connection was released.
C17_Witness ==
  /\ nQueries = 2
  /\ qpc = "idle"
  /\ lastQuery.outcome = "raised"
  /\ lastQuery.conn # 0
  /\ lastQuery.before # {}
  /\ activeConnections = lastQuery.before

\* C18: every connection that was in the active set when close() was called
\* has been closed and is no longer in the active set, the pool is gone, and
\* no query() after the close gets a connection.
C18_CloseInvalidatesPool ==
  /\ \A c \in trackedAtClose :
       c \notin activeConnections /\ connCloses[c] >= 1
  /\ nBackendCloses > 0 =>
       /\ pool # "pool"
       /\ qpc = "idle"
       /\ qconn = 0

\* The pieces of a text between the occurrences of a separator, in order.
Cut(text, sep) ==
  LET marks == {0, Len(text) + 1} \cup {j \in 1..Len(text) : text[j] = sep}
      Nth(k) == CHOOSE b \in marks : Cardinality({c \in marks : c < b}) = k
  IN  [k \in 1..(Cardinality(marks) - 1) |->
         SubSeq(text, Nth(k - 1) + 1, Nth(k) - 1)]

\* The lines of a response body: what lies between its newlines, except that
\* nothing follows a final newline.
LinesOf(text) ==
  LET all == Cut(text, "\n")
  IN  IF all[Len(all)] = <<>> THEN SubSeq(all, 1, Len(all) - 1) ELSE all

\* The columns of a line: none for the empty line.
ColumnsOf(line) == IF line = <<>> THEN <<>> ELSE Cut(line, ",")

\* The data lines (all but the first) that have a column, by their place.
LiveLines(text) ==
  {k \in 2..Len(LinesOf(text)) : ColumnsOf(LinesOf(text)[k]) # <<>>}

\* The columns of the j-th data line that has a column.
LiveColumns(text, j) ==
  ColumnsOf(LinesOf(text)[CHOOSE k \in LiveLines(text) :
                            Cardinality({h \in LiveLines(text) : h < k}) = j - 1])

\* The header positions a data line with columns cols fills.
Paired(header, cols) ==
  1..(IF Len(cols) < Len(header) THEN Len(cols) ELSE Len(header))

\* C19 as stated: the parse returns one row per data line that has a column,
\* in order, and each row pairs, for every position i below the header count,
\* the lowercased i-th header name with the line's i-th column, and holds
\* nothing else.
C19_CsvRowsPairEveryColumn ==
  (parsed.done /\ parsed.ok) =>
    LET header == ColumnsOf(LinesOf(responseText)[1])
    IN  /\ Len(parsed.rows) = Cardinality(LiveLines(responseText))
        /\ \A j \in 1..Len(parsed.rows) :
             LET cols == LiveColumns(responseText, j)
             IN  /\ DOMAIN parsed.rows[j] =
                      {LowerText(header[c]) : c \in Paired(header, cols)}
                 /\ \A c \in Paired(header, cols) :
                      parsed.rows[j][LowerText(header[c])] = cols[c]

\* C19 amended: as above, but where several header positions carry the same
\* lowercased name the row holds under that name the column of the last of
\* them; with header names that differ, every position is paired.  The parse
\* raises exactly when the body has no first line.
C19_CsvRowsLastColumnWins ==
  parsed.done =>
    /\ parsed.ok <=> LinesOf(responseText) # <<>>
    /\ parsed.ok =>
         LET header == ColumnsOf(LinesOf(responseText)[1])
         IN  /\ Len(parsed.rows) = Cardinality(LiveLines(responseText))
             /\ \A j \in 1..Len(parsed.rows) :
                  LET cols == LiveColumns(responseText, j)
                  IN  /\ DOMAIN parsed.rows[j] =
                           {LowerText(header[c]) : c \in Paired(header, cols)}
                      /\ \A c \in Paired(header, cols) :
                           (\A h \in Paired(header, cols) :
                              h > c => LowerText(header[h]) # LowerText(header[c]))
                             => parsed.rows[j][LowerText(header[c])] = cols[c]

\* C19 witness: the body "A" / "" / "b,A" was parsed: the header name is
\* lowercased, the empty line gives no row and the second column of the data
\* line is dropped.
C19_Witness ==
  /\ parsed.done
  /\ parsed.ok
  /\ responseText = <<"A", "\n", "\n", "b", ",", "A">>
  /\ Len(parsed.rows) = 1
  /\ DOMAIN parsed.rows[1] = {<<"a">>}
  /\ parsed.rows[1][<<"a">>] = <<"b">>

\* C20: while a step is executing its statements or waiting to assemble, the
\* Context is still what the step was rendered against; and once a step has
\* failed, at its rendering, its adapter, its connection, one of its
\* statements or its assembly, the Context is what it was before that step,
\* whatever rows the step's earlier statements returned.
C20_StepAllOrNothing ==
  /\ pc \in {"exec", "assemble"} => Data = renderLog[i].ctx
  /\ failedStep # 0 => Data = renderLog[failedStep].ctx

\* C20 witness: step 1 stored its rows, step 2 got a row from its first
\* statement and failed at its second; process() raised and the Context holds
\* step 1's rows only.
C20_Witness ==
  /\ Returned
  /\ failedStep = 2
  /\ Len(asmLog) = 1
  /\ Data # runStart
  /\ Len(SentOf(2)) = 2
  /\ SentOf(2)[1].rows # <<>>
  /\ Data = asmLog[1].after

\* Step s was rendered to a text with no statement in it (nothing but
\* separators and blanks), and its adapter is a declared one.
EmptyStep(s) ==
  /\ s \in 1..Len(renderLog)
  /\ ~(failedStep = s /\ err = Error("TemplateError", <<>>))
  /\ \A j \in 1..Len(renderLog[s].text) : renderLog[s].text[j] \in {";", " "}
  /\ Queries[s].adapter \in DOMAIN config.adapter_settings

\* C21: a step whose rendered text holds no statement sends nothing and
\* never waits on a backend; it hands the empty result to assembly, which
\* stores the empty sequence at the step's path (and fails only where the
\* path runs through a value that is no mapping).  An adapter to which no
\* statement was sent has no connection constructed, stays cached without
\* one, and at teardown its adapter is closed without any close of a
\* connection.
C21_EmptyStepStoresEmpty ==
  /\ \A s \in 1..Len(renderLog) :
       EmptyStep(s) =>
         /\ SentOf(s) = <<>>
         /\ i = s => pc \in {"assemble", "closing", "idle"}
         /\ failedStep = s => err.type = "TypeError"
         /\ (i > s \/ failedStep = s \/ lastResult = "document") =>
              /\ Len(asmLog) >= s
              /\ asmLog[s].rows = <<>>
              /\ asmLog[s].ok <=> ~Blocked(asmLog[s].before, Split(Queries[s].table, "."))
              /\ asmLog[s].ok =>
                   Lookup(MapVal(asmLog[s].after), Split(Queries[s].table, ".")) = ListVal(<<>>)
  /\ \A n \in Names :
       (\A k \in 1..Len(sent) : sent[k].adapter # n) =>
         /\ built[n] = 0
         /\ connClosed[n] = 0
         /\ \A j \in 1..Len(adapters) :
              (adapters[j].name = n /\ adapters[j].fresh) => adapters[j].conn = "none"

\* C21 witness: a run whose only step rendered to the empty text returned
\* its document: nothing was sent, the empty sequence is stored at "t", the
\* adapter was instantiated and closed once, and no connection was made or
\* closed.
C21_Witness ==
  /\ lastResult = "document"
  /\ Len(Queries) = 1
  /\ EmptyStep(1)
  /\ sent = <<>>
  /\ Lookup(MapVal(Data), <<<<"t">>>>) = ListVal(<<>>)
  /\ made[Queries[1].adapter] = 1
  /\ closeCnt[Queries[1].adapter] = 1
  /\ built[Queries[1].adapter] = 0
  /\ connClosed[Queries[1].adapter] = 0

====
